---- MODULE Spec2Model ----
(***************************************************************************)
(* A model of lib/Map/LegendHelper.js: the legend helper of a table        *)
(* column.  One helper instance is modelled: its inputs (tableColumn,      *)
(* tableStyle), its cache (_legend, _colorGradient, _binColors) and the    *)
(* two operations a caller uses, legendUrl (which runs generateLegend on   *)
(* first use) and getColorFromValue.  The variable last records the last   *)
(* call: its argument, whether it returned or threw, what it returned and  *)
(* whether it built the gradient table.                                    *)
(*                                                                         *)
(* simplestats.quantile and simplestats.ckmeans are the routines of the    *)
(* simple-statistics 1.x dependency, modelled by their algorithms; the     *)
(* canvas gradient is modelled by linear interpolation between the stops.  *)
(*                                                                         *)
(* Encoding of JavaScript values                                           *)
(*   - undefined is the empty tuple <<>>, a defined value x is <<x>>;      *)
(*   - numbers are integers counting thousandths (4 stands for 0.004), so  *)
(*     that rounding to two decimal places loses information;              *)
(*   - a formatted number (a string) is the integer count of hundredths    *)
(*     it prints;                                                          *)
(*   - an element of a column's values is [num |-> TRUE, v |-> n] for the  *)
(*     number n and [num |-> FALSE, v |-> 0] for anything that is not of   *)
(*     typeof 'number' (a string, null);                                   *)
(*   - a colour array is a 4-tuple of optional bytes: reading ImageData    *)
(*     at an index that is no index (NaN) yields undefined entries;        *)
(*   - arithmetic is exact (rational), not IEEE double arithmetic.         *)
(***************************************************************************)
EXTENDS Integers, Sequences, FiniteSets, TLC

VARIABLES tableColumn, tableStyle, _legend, _colorGradient, _binColors, last

vars == <<tableColumn, tableStyle, _legend, _colorGradient, _binColors, last>>

\* ------------------------------------------------------------------ bounds

\* Longest value sequence of a column.
MaxLen == 3
\* Largest explicitly requested colorBins.
MaxBins == 2
\* Largest requested legendTicks.
MaxTicks == 1

\* -------------------------------------------------------- program constants

\* defaultValue(this.tableStyle.colorBins, 7)
DefaultColorBins == 7
\* defaultValue(this.tableStyle.legendTicks, 0)
DefaultLegendTicks == 0
\* canvas.height = 256: the gradient table has 256 rows of 4 bytes
GradientHeight == 256
\* 'auto' uses quantiles above this many numerical values
AutoQuantileThreshold == 1000
\* barHeightMin of a gradient legend
BarHeightMin == 130

\* ------------------------------------------------------- JavaScript values

Undefined == <<>>

Def(x) == <<x>>

\* Cesium's defined(value): value !== undefined
defined(v) == v # Undefined

Val(v) == v[1]

Number(n) == [num |-> TRUE, v |-> n]

NotANumber == [num |-> FALSE, v |-> 0]

SetMin(S) == CHOOSE x \in S : \A y \in S : x <= y

SetMax(S) == CHOOSE x \in S : \A y \in S : x >= y

Min2(a, b) == IF a <= b THEN a ELSE b

\* ---------------------------------------------------------------- colours

Rgba(r, g, b, a) == <<Def(r), Def(g), Def(b), Def(a)>>

defaultColorMap ==
    << [offset |-> 0,    color |-> <<32, 0, 200, 255>>],
       [offset |-> 250,  color |-> <<0, 200, 200, 255>>],
       [offset |-> 500,  color |-> <<0, 200, 0, 255>>],
       [offset |-> 750,  color |-> <<200, 200, 0, 255>>],
       [offset |-> 1000, color |-> <<200, 0, 0, 255>>] >>

defaultColorArray == Rgba(32, 0, 200, 255)

\* new Color(r/255, g/255, b/255, a/255): each component is the byte over 255,
\* and undefined/255 is NaN, written <<>>.
colorArrayToColor(colorArray) ==
    [c \in 1..4 |-> IF defined(colorArray[c]) THEN <<Val(colorArray[c]), 255>> ELSE <<>>]

\* The canvas fills a vertical linear gradient; row k of the image data is the
\* ramp at the fractional position k / (GradientHeight - 1), each channel
\* interpolated linearly between the bracketing stops (offsets in thousandths).
RECURSIVE Segment(_, _, _)
Segment(colorMap, row, i) ==
    IF i + 1 >= Len(colorMap) \/ row * 1000 <= colorMap[i + 1].offset * (GradientHeight - 1)
    THEN i
    ELSE Segment(colorMap, row, i + 1)

Interpolate(lo, hi, row, c) ==
    IF hi.offset = lo.offset THEN lo.color[c]
    ELSE lo.color[c] + ((hi.color[c] - lo.color[c]) * (row * 1000 - lo.offset * (GradientHeight - 1)))
                          \div ((hi.offset - lo.offset) * (GradientHeight - 1))

SegmentPixel(colorMap, i, row, c) == Interpolate(colorMap[i], colorMap[i + 1], row, c)

GradientPixel(colorMap, row, c) ==
    IF Len(colorMap) = 1 THEN colorMap[1].color[c]
    ELSE SegmentPixel(colorMap, Segment(colorMap, row, 1), row, c)

\* buildColorGradient: the ImageData of column 0 of the canvas.  Its bytes are
\* a function of the colour map, so the map stands for them.
buildColorGradient(colorMap) ==
    IF ~defined(colorMap) THEN Undefined
    ELSE Def([data |-> Val(colorMap), length |-> GradientHeight * 4])

\* colorGradient.data[index]: undefined outside 0 .. length-1
GradientData(colorGradient, index) ==
    IF index < 0 \/ index >= colorGradient.length THEN Undefined
    ELSE Def(GradientPixel(colorGradient.data, index \div 4, (index % 4) + 1))

\* A fractional position is the quotient num/den as the caller computes it;
\* 0/0 is NaN, Math.floor(NaN) * 4 is NaN and data[NaN] is undefined.
getColorFromColorGradient(colorGradient, num, den) ==
    IF den = 0 THEN <<Undefined, Undefined, Undefined, Undefined>>
    ELSE LET colorIndex == ((num * (colorGradient.length \div 4 - 1)) \div den) * 4
         IN << GradientData(colorGradient, colorIndex),
               GradientData(colorGradient, colorIndex + 1),
               GradientData(colorGradient, colorIndex + 2),
               GradientData(colorGradient, colorIndex + 3) >>

\* ------------------------------------------------------ simple-statistics

RECURSIVE InsertSorted(_, _)
InsertSorted(sorted, x) ==
    IF sorted = <<>> THEN <<x>>
    ELSE IF x < Head(sorted) THEN <<x>> \o sorted
         ELSE <<Head(sorted)>> \o InsertSorted(Tail(sorted), x)

RECURSIVE numericSort(_)
numericSort(array) ==
    IF array = <<>> THEN <<>>
    ELSE InsertSorted(numericSort(Tail(array)), Head(array))

\* simplestats.quantile(sample, p) for p = num/den in (0, 1]: the sample is
\* sorted, idx = length * p; p = 1 gives the last element, a fractional idx
\* the element at ceil(idx) - 1, a whole idx the mean of its two neighbours
\* when the length is even and the element at idx when it is odd (0-based).
quantileSorted(sample, num, den) ==
    LET n   == Len(sample)
        idx == (n * num) \div den
    IN IF num = den THEN sample[n]
       ELSE IF num = 0 THEN sample[1]
       ELSE IF (n * num) % den # 0 THEN sample[idx + 1]
       ELSE IF n % 2 = 0 THEN (sample[idx] + sample[idx + 1]) \div 2
       ELSE sample[idx + 1]

quantile(sample, num, den) == quantileSorted(numericSort(sample), num, den)

RECURSIVE Sum(_, _, _)
Sum(sorted, a, b) == IF a > b THEN 0 ELSE sorted[a] + Sum(sorted, a + 1, b)

RECURSIVE SumSq(_, _, _)
SumSq(sorted, a, b) == IF a > b THEN 0 ELSE sorted[a] * sorted[a] + SumSq(sorted, a + 1, b)

RECURSIVE Fact(_)
Fact(n) == IF n <= 1 THEN 1 ELSE n * Fact(n - 1)

\* The within-cluster sum of squared deviations of sorted[a..b], times
\* Fact(Len(sorted)) so that it is a whole number.
ClusterCost(sorted, a, b) ==
    LET n == b - a + 1
    IN (Fact(Len(sorted)) \div n) * (n * SumSq(sorted, a, b) - Sum(sorted, a, b) * Sum(sorted, a, b))

\* matrix[k - 1][m - 1] of ckmeans: the least total cost of splitting the
\* first m sorted values into k non-empty clusters, the last of which starts
\* at some j in k..m.
RECURSIVE OptCost(_, _, _)
OptCost(sorted, k, m) ==
    IF k = 1 THEN ClusterCost(sorted, 1, m)
    ELSE SetMin({ClusterCost(sorted, j, m) + OptCost(sorted, k - 1, j - 1) : j \in k..m})

\* backtrackMatrix[k - 1][m - 1]: where the last of the k clusters starts.  The
\* scan runs j downwards and replaces only on a strictly smaller cost, so of
\* the minimal starts the largest is kept.
BacktrackStart(sorted, k, m) ==
    IF k = 1 THEN 1
    ELSE SetMax({j \in k..m :
                   ClusterCost(sorted, j, m) + OptCost(sorted, k - 1, j - 1) = OptCost(sorted, k, m)})

RECURSIVE BacktrackClusters(_, _, _)
BacktrackClusters(sorted, k, m) ==
    IF k = 1 THEN <<SubSeq(sorted, 1, m)>>
    ELSE Append(BacktrackClusters(sorted, k - 1, BacktrackStart(sorted, k, m) - 1),
                SubSeq(sorted, BacktrackStart(sorted, k, m), m))

uniqueCountSorted(sorted) == Cardinality({sorted[i] : i \in 1..Len(sorted)})

\* simplestats.ckmeans(data, nClusters): throws when asked for more clusters
\* than values; one cluster when all values are equal; with no cluster to
\* make (and so no value) it reads backtrackMatrix[0] of an empty matrix, a
\* TypeError; otherwise the optimal clusters, in order.
ckmeans(data, nClusters) ==
    LET sorted == numericSort(data)
    IN IF nClusters > Len(data) THEN [threw |-> TRUE, clusters |-> <<>>]
       ELSE IF uniqueCountSorted(sorted) = 1 THEN [threw |-> FALSE, clusters |-> <<sorted>>]
       ELSE IF nClusters = 0 THEN [threw |-> TRUE, clusters |-> <<>>]
       ELSE [threw |-> FALSE, clusters |-> BacktrackClusters(sorted, nClusters, Len(sorted))]

\* ----------------------------------------------------------- buildBinColors

\* tableStyle.colorBinMethod.match(/none/i)
MatchesNone(colorBinMethod) == colorBinMethod \in {"none", "None"}

\* tableColumn.values.filter(function(x) { return typeof x === 'number'; })
RECURSIVE numericalValuesOf(_)
numericalValuesOf(values) ==
    IF values = <<>> THEN <<>>
    ELSE IF Head(values).num THEN <<Head(values).v>> \o numericalValuesOf(Tail(values))
         ELSE numericalValuesOf(Tail(values))

\* (mutant) the quantile branch with the i / binCount quantile as upper bound
quantileBinsShifted(numericalValues, binCount, colorGradient) ==
    [i \in 1..binCount |->
        [upperBound |-> quantile(numericalValues, i - 1, binCount),
         color |-> getColorFromColorGradient(colorGradient, i - 1, binCount - 1)]]

\* The quantile branch: bin i (0-based) has the (i + 1) / binCount quantile as
\* its upper bound and the gradient at i / (binCount - 1) as its colour.
quantileBins(numericalValues, binCount, colorGradient) ==
    [i \in 1..binCount |->
        [upperBound |-> quantile(numericalValues, i, binCount),
         color |-> getColorFromColorGradient(colorGradient, i - 1, binCount - 1)]]

\* The first loop of the ckmeans branch: the last value of each cluster,
\* skipping a one-value cluster that repeats the last value of the cluster
\* before it.
RECURSIVE clusterBounds(_, _)
clusterBounds(clusters, i) ==
    IF i > Len(clusters) THEN <<>>
    ELSE IF /\ i > 1
            /\ Len(clusters[i]) = 1
            /\ clusters[i][1] = clusters[i - 1][Len(clusters[i - 1])]
         THEN clusterBounds(clusters, i + 1)
         ELSE <<clusters[i][Len(clusters[i])]>> \o clusterBounds(clusters, i + 1)

\* The second loop of the ckmeans branch: bin i (0-based) of N gets the
\* gradient at i / (N - 1).
ckmeansBins(clusters, colorGradient) ==
    LET bounds == clusterBounds(clusters, 1)
    IN [i \in 1..Len(bounds) |->
           [upperBound |-> bounds[i],
            color |-> getColorFromColorGradient(colorGradient, i - 1, Len(bounds) - 1)]]

\* The result is [threw, value]: value is undefined (no binning) or the bin
\* array; threw says that the call ended in an exception of ckmeans.
buildBinColors(column, style, colorGradient) ==
    IF ~defined(column.values) \/ style.colorBins <= 0 \/ MatchesNone(style.colorBinMethod)
    THEN [threw |-> FALSE, value |-> Undefined]
    ELSE LET numericalValues == numericalValuesOf(Val(column.values))
             binCount == Min2(style.colorBins, Len(numericalValues))
         IN IF \/ style.colorBinMethod = "quantile"
               \/ style.colorBinMethod = "auto" /\ Len(numericalValues) > AutoQuantileThreshold
            THEN [threw |-> FALSE,
                  value |-> Def(quantileBins(numericalValues, binCount, colorGradient))]
            ELSE LET c == ckmeans(numericalValues, binCount)
                 IN IF c.threw THEN [threw |-> TRUE, value |-> Undefined]
                    ELSE [threw |-> FALSE, value |-> Def(ckmeansBins(c.clusters, colorGradient))]

\* ---------------------------------------------------------- buildLegendProps

\* A number is a quotient num/den of thousandths, den > 0; NaN is <<>>.
\* (Math.round(f * 100) / 100).toString(): Math.round rounds halves up; the
\* string is stood for by the number of hundredths it prints, "NaN" by <<>>.
convertToStringWithAtMostTwoDecimalPlaces(f) ==
    IF ~defined(f) THEN <<"NaN">>
    ELSE <<"str", (2 * Val(f).num + 10 * Val(f).den) \div (20 * Val(f).den)>>

Whole(n) == Def([num |-> n, den |-> 1])

\* a string shown for an optional number (undefined prints as NaN)
FormatOpt(n) ==
    convertToStringWithAtMostTwoDecimalPlaces(IF defined(n) THEN Whole(Val(n)) ELSE Undefined)

\* minimumValue + (maximumValue - minimumValue) * (i / segments)
TickValue(minimumValue, maximumValue, i, segments) ==
    IF ~defined(minimumValue) \/ ~defined(maximumValue) THEN Undefined
    ELSE Def([num |-> Val(minimumValue) * segments + (Val(maximumValue) - Val(minimumValue)) * i,
              den |-> segments])

\* (mutant) gradientLabelPoints with 1 + ticks segments
gradientLabelPointsOneSegmentLess(minimumValue, maximumValue, ticks) ==
    LET segments == 1 + ticks
    IN [i \in 1..segments |->
           [titleAbove |-> Def(convertToStringWithAtMostTwoDecimalPlaces(
                                   TickValue(minimumValue, maximumValue, i, segments))),
            titleBelow |-> IF i = 1 THEN Def(FormatOpt(minimumValue)) ELSE Undefined]]

\* gradientLabelPoints(ticks): 2 + ticks label points, the first with the
\* minimum below.
gradientLabelPoints(minimumValue, maximumValue, ticks) ==
    LET segments == 2 + ticks
    IN [i \in 1..segments |->
           [titleAbove |-> Def(convertToStringWithAtMostTwoDecimalPlaces(
                                   TickValue(minimumValue, maximumValue, i, segments))),
            titleBelow |-> IF i = 1 THEN Def(FormatOpt(minimumValue)) ELSE Undefined]]

\* 'rgb(' + b.color[0] + ',' + b.color[1] + ',' + b.color[2] + ')'
RgbString(color) == <<"rgb", color[1], color[2], color[3]>>

enumItems(binColors) ==
    [i \in 1..Len(binColors) |->
        [title |-> i - 1, color |-> RgbString(binColors[i].color)]]

\* (mutant) the numeric items without the check i < binColors.length - 1
numericItemsDedupEverywhere(binColors, minimumValue) ==
    [i \in 1..Len(binColors) |->
        [titleAbove |->
            IF i = 1 \/ binColors[i].upperBound > binColors[i - 1].upperBound
            THEN Def(FormatOpt(Def(binColors[i].upperBound)))
            ELSE Undefined,
         titleBelow |->
            IF i = 1 /\ Def(binColors[i].upperBound) # minimumValue
            THEN Def(FormatOpt(minimumValue))
            ELSE Undefined,
         color |-> RgbString(binColors[i].color)]]

\* The items of a numeric legend, indices from 1.
numericItems(binColors, minimumValue) ==
    [i \in 1..Len(binColors) |->
        [titleAbove |->
            IF i = 1 \/ i < Len(binColors) \/ binColors[i].upperBound > binColors[i - 1].upperBound
            THEN Def(FormatOpt(Def(binColors[i].upperBound)))
            ELSE Undefined,
         titleBelow |->
            IF i = 1 /\ Def(binColors[i].upperBound) # minimumValue
            THEN Def(FormatOpt(minimumValue))
            ELSE Undefined,
         color |-> RgbString(binColors[i].color)]]

\* The display bounds: the column's, overridden by the style's when the
\* column's differ.
DisplayMinimum(column, style) ==
    IF column.minimumValue # column.maximumValue /\ defined(style.minDisplayValue)
    THEN style.minDisplayValue
    ELSE column.minimumValue

DisplayMaximum(column, style) ==
    IF column.minimumValue # column.maximumValue /\ defined(style.maxDisplayValue)
    THEN style.maxDisplayValue
    ELSE column.maximumValue

\* undefined (no legend), or the properties handed to new Legend(...).
buildLegendProps(column, style, colorMap, binColors) ==
    IF Len(colorMap) = 1 THEN Undefined
    ELSE LET minimumValue == DisplayMinimum(column, style)
             maximumValue == DisplayMaximum(column, style)
         IN IF ~defined(binColors)
            THEN Def([kind |-> "gradient",
                      barHeightMin |-> BarHeightMin,
                      gradientColorMap |-> colorMap,
                      items |-> gradientLabelPoints(minimumValue, maximumValue, style.legendTicks)])
            ELSE IF column.type = "ENUM"
            THEN Def([kind |-> "enum",
                      itemSpacing |-> 2,
                      items |-> enumItems(Val(binColors))])
            ELSE Def([kind |-> "numeric",
                      itemSpacing |-> 0,
                      items |-> numericItems(Val(binColors), minimumValue)])

\* ------------------------------------------------------------- LegendHelper

LegendUndefined == <<"undefined">>

LegendNull == <<"null">>

\* new Legend(legendProps)
Legend(legendProps) == <<"Legend", legendProps>>

\* Cesium's definedNotNull(value)
definedNotNull(legend) == legend # LegendUndefined /\ legend # LegendNull

\* generateLegend from the helper's fields: the fields after the call, whether
\* it built the gradient table (built) and whether it ended in an exception.
\* An exception of buildBinColors leaves _colorGradient assigned and the
\* other two fields as they were.
generateLegend(column, style, legend, gradient, bins) ==
    IF ~defined(column)
    THEN [legend |-> legend, gradient |-> gradient, bins |-> bins,
          built |-> FALSE, threw |-> FALSE]
    ELSE LET colorMap == IF defined(style.colorMap) THEN Val(style.colorMap) ELSE defaultColorMap
             newGradient == buildColorGradient(Def(colorMap))
             b == buildBinColors(Val(column), style, Val(newGradient))
             legendProps == buildLegendProps(Val(column), style, colorMap, b.value)
         IN IF b.threw
            THEN [legend |-> legend, gradient |-> newGradient, bins |-> bins,
                  built |-> TRUE, threw |-> TRUE]
            ELSE [legend |-> IF defined(legendProps) THEN Legend(Val(legendProps)) ELSE LegendNull,
                  gradient |-> newGradient, bins |-> b.value,
                  built |-> TRUE, threw |-> FALSE]

\* legendUrl: generate when _legend is undefined, then the PNG url of the
\* legend when there is one (the url is the renderer's; "png" stands for it).
legendUrl(column, style, legend, gradient, bins) ==
    LET g == IF legend = LegendUndefined
             THEN generateLegend(column, style, legend, gradient, bins)
             ELSE [legend |-> legend, gradient |-> gradient, bins |-> bins,
                   built |-> FALSE, threw |-> FALSE]
    IN [legend |-> g.legend, gradient |-> g.gradient, bins |-> g.bins,
        built |-> g.built,
        outcome |-> IF g.threw THEN "throw" ELSE "return",
        retval |-> IF ~g.threw /\ definedNotNull(g.legend) THEN Def("png") ELSE Undefined]

\* (mutant) the while loop with >= for >
RECURSIVE BinIndexGe(_, _, _)
BinIndexGe(binColors, value, i) ==
    IF i < Len(binColors) /\ value >= binColors[i].upperBound
    THEN BinIndexGe(binColors, value, i + 1)
    ELSE i

\* The while loop of getColorFromValue, indices from 1.
RECURSIVE BinIndex(_, _, _)
BinIndex(binColors, value, i) ==
    IF i < Len(binColors) /\ value > binColors[i].upperBound
    THEN BinIndex(binColors, value, i + 1)
    ELSE i

\* (mutant) getColorFromValue without the check of an undefined value
getColorFromValueNoDefault(bins, value) ==
    IF ~defined(bins) THEN [outcome |-> "throw", retval |-> Undefined]
    ELSE IF Val(bins) = <<>>
         THEN [outcome |-> "return", retval |-> Def(colorArrayToColor(Rgba(0, 0, 0, 0)))]
         ELSE [outcome |-> "return", retval |-> Def(colorArrayToColor(Val(bins)[1].color))]

\* getColorFromValue on the cached bins: [outcome, retval].  Reading .length
\* of undefined bins is a TypeError.
getColorFromValue(bins, value) ==
    IF ~defined(value)
    THEN [outcome |-> "return", retval |-> Def(colorArrayToColor(defaultColorArray))]
    ELSE IF ~defined(bins) THEN [outcome |-> "throw", retval |-> Undefined]
    ELSE LET i == BinIndex(Val(bins), Val(value), 1)
         IN IF i > Len(Val(bins))
            THEN [outcome |-> "return", retval |-> Def(colorArrayToColor(Rgba(0, 0, 0, 0)))]
            ELSE [outcome |-> "return", retval |-> Def(colorArrayToColor(Val(bins)[i].color))]

\* ------------------------------------------------------------------ inputs

\* Numbers a column may hold, in thousandths (all even, so that the mean of
\* two of them is whole).
SampleNumbers == {4, 16, 100}

Elements == {Number(n) : n \in SampleNumbers} \cup {NotANumber}

\* The value sequences of a column: up to MaxLen elements, numbers in
\* non-increasing order after the non-numbers.  Both binning methods sort
\* their sample first, so the order of a column does not change its bins.
Rank(e) == IF e.num THEN e.v ELSE SetMax(SampleNumbers) + 1

ValueSequences ==
    {q \in UNION {[1..n -> Elements] : n \in 0..MaxLen} :
        \A i \in 1..(Len(q) - 1) : Rank(q[i]) >= Rank(q[i + 1])}

\* Values looked up with getColorFromValue.
LookupValues == {Undefined, Def(4), Def(10), Def(16), Def(200)}

SingleStopColorMap == << [offset |-> 0, color |-> <<10, 20, 30, 255>>] >>

ColorMaps == {Undefined, Def(SingleStopColorMap)}

ColorBinMethods == {"auto", "quantile", "None"}

ColumnTypes == {"SCALAR", "ENUM"}

MinDisplayValues == {Undefined, Def(0)}

MaxDisplayValues == {Undefined, Def(150)}

\* A table column: its values, its type and the minimum and maximum of its
\* numbers (undefined when it holds none).
Column(values, type) ==
    LET nums == IF defined(values)
                THEN {Val(values)[i].v : i \in {j \in 1..Len(Val(values)) : Val(values)[j].num}}
                ELSE {}
    IN [values |-> values, type |-> type,
        minimumValue |-> IF nums = {} THEN Undefined ELSE Def(SetMin(nums)),
        maximumValue |-> IF nums = {} THEN Undefined ELSE Def(SetMax(nums))]

Columns ==
    {Undefined} \cup
    {Def(Column(v, t)) : v \in {Undefined} \cup {Def(q) : q \in ValueSequences}, t \in ColumnTypes}

\* The constructor's defaults on the style.
defaultValue(a, b) == IF defined(a) THEN Val(a) ELSE b

Styles ==
    {[colorBins |-> defaultValue(bins, DefaultColorBins),
      legendTicks |-> defaultValue(ticks, DefaultLegendTicks),
      colorBinMethod |-> method,
      colorMap |-> colorMap,
      minDisplayValue |-> lo,
      maxDisplayValue |-> hi] :
        bins \in {Undefined} \cup {Def(n) : n \in 0..MaxBins},
        ticks \in {Undefined} \cup {Def(n) : n \in 0..MaxTicks},
        method \in ColorBinMethods,
        colorMap \in ColorMaps,
        lo \in MinDisplayValues,
        hi \in MaxDisplayValues}

\* ------------------------------------------------------------------- state

NoCall == [op |-> "none", arg |-> Undefined, outcome |-> "none", retval |-> Undefined,
           built |-> FALSE]

Init ==
    /\ tableColumn \in Columns
    /\ tableStyle \in Styles
    /\ _legend = LegendUndefined
    /\ _colorGradient = Undefined
    /\ _binColors = Undefined
    /\ last = NoCall

LegendUrl ==
    LET r == legendUrl(tableColumn, tableStyle, _legend, _colorGradient, _binColors)
    IN /\ _legend' = r.legend
       /\ _colorGradient' = r.gradient
       /\ _binColors' = r.bins
       /\ last' = [op |-> "legendUrl", arg |-> Undefined, outcome |-> r.outcome,
                   retval |-> r.retval, built |-> r.built]
       /\ UNCHANGED <<tableColumn, tableStyle>>

GetColorFromValue ==
    \E value \in LookupValues :
        LET r == getColorFromValue(_binColors, value)
        IN /\ last' = [op |-> "getColorFromValue", arg |-> value, outcome |-> r.outcome,
                       retval |-> r.retval, built |-> FALSE]
           /\ UNCHANGED <<tableColumn, tableStyle, _legend, _colorGradient, _binColors>>

Next == LegendUrl \/ GetColorFromValue

Spec == Init /\ [][Next]_vars

\* ----------------------------------------------------------------- claims

Bins == Val(_binColors)

HasBins == defined(_binColors) /\ Len(Val(_binColors)) > 0

NonDecreasing(bins) == \A i \in 1..(Len(bins) - 1) : bins[i].upperBound <= bins[i + 1].upperBound

Looked == last.op = "getColorFromValue"

Asked == last.op = "legendUrl"

Sample == numericalValuesOf(Val(Val(tableColumn).values))

HasSample == defined(tableColumn) /\ defined(Val(tableColumn).values) /\ Len(Sample) > 0

SampleSet == {Sample[i] : i \in 1..Len(Sample)}

BinningOff == tableStyle.colorBins <= 0 \/ MatchesNone(tableStyle.colorBinMethod)

SingleStop == defined(tableStyle.colorMap) /\ Len(Val(tableStyle.colorMap)) = 1

Items == _legend[2].items

TransparentBlack == << <<0, 255>>, <<0, 255>>, <<0, 255>>, <<0, 255>> >>

DefaultColor == << <<32, 255>>, <<0, 255>>, <<200, 255>>, <<255, 255>> >>

\* The bin the contract names for a value: the first whose upperBound is at
\* least the value, the last when there is none.
ContractBin(bins, value) ==
    IF \E i \in 1..Len(bins) : bins[i].upperBound >= value
    THEN SetMin({i \in 1..Len(bins) : bins[i].upperBound >= value})
    ELSE Len(bins)

\* C1: with a non-empty bin sequence of non-decreasing upper bounds,
\* getColorFromValue of a defined number returns the colour of the first bin
\* whose upperBound is at least the value, and the last bin's colour when the
\* value is above every upperBound.
C1_FirstBinAtLeastValue ==
    (Looked /\ defined(last.arg) /\ HasBins /\ NonDecreasing(Bins)) =>
        /\ last.outcome = "return"
        /\ last.retval = Def(colorArrayToColor(Bins[ContractBin(Bins, Val(last.arg))].color))

C1_Witness ==
    /\ Looked /\ defined(last.arg) /\ HasBins /\ Len(Bins) >= 3
    /\ Val(last.arg) = Bins[2].upperBound
    /\ Bins[1].upperBound < Bins[2].upperBound
    /\ last.retval = Def(colorArrayToColor(Bins[2].color))

\* C2: getColorFromValue of a defined value never ends in an exception,
\* whatever the helper's state (before generation, with bins, with an empty
\* bin sequence, with binning disabled); it returns a colour, and fully
\* transparent black when the scanned index has no bin.
C2_LookupNeverThrows ==
    (Looked /\ defined(last.arg)) =>
        /\ last.outcome = "return"
        /\ defined(last.retval)
        /\ (~HasBins => last.retval = Def(TransparentBlack))

\* C3: getColorFromValue(undefined) returns the default colour [32,0,200,255]
\* in every state of the helper, and leaves the cache as it was.
C3_UndefinedGivesDefault ==
    [][(last'.op = "getColorFromValue" /\ last'.arg = Undefined) =>
          /\ last'.outcome = "return"
          /\ last'.retval = Def(DefaultColor)
          /\ UNCHANGED <<_legend, _colorGradient, _binColors>>]_vars

C3_Witness ==
    /\ Looked /\ last.arg = Undefined /\ last.retval = Def(DefaultColor)
    /\ HasBins /\ _legend[1] = "Legend"

\* C4: with a colour ramp of exactly one stop, for every column and style,
\* legendUrl records _legend = null and returns undefined, and a later
\* legendUrl returns undefined without generating again.
C4_SingleStopNoLegend ==
    [][(SingleStop /\ defined(tableColumn) /\ last'.op = "legendUrl") =>
          /\ last'.outcome = "return"
          /\ last'.retval = Undefined
          /\ _legend' = LegendNull
          /\ (_legend # LegendUndefined \/ defined(_colorGradient) => ~last'.built)]_vars

C6_BuiltAtMostOnce ==
    [][/\ (last'.op = "legendUrl" /\ (defined(_colorGradient) \/ _legend # LegendUndefined)) =>
              (~last'.built /\ UNCHANGED <<_legend, _colorGradient, _binColors>>)
       /\ last'.op = "getColorFromValue" =>
              UNCHANGED <<_legend, _colorGradient, _binColors>>]_vars

\* C7: a numeric-bins legend has one item per bin, in order; item i shows the
\* formatted upperBound above, except the last of at least two bins when its
\* upperBound equals the one before; only item 0 may show a title below, the
\* formatted display minimum, and only when bin 0's upperBound differs from it.
C7_NumericTitles ==
    (_legend[1] = "Legend" /\ _legend[2].kind = "numeric") =>
        /\ defined(_binColors)
        /\ Len(Items) = Len(Bins)
        /\ \A i \in 1..Len(Bins) :
              /\ Items[i].titleAbove =
                    IF i = Len(Bins) /\ i >= 2 /\ Bins[i].upperBound = Bins[i - 1].upperBound
                    THEN Undefined
                    ELSE Def(FormatOpt(Def(Bins[i].upperBound)))
              /\ Items[i].titleBelow =
                    IF i = 1 /\ Def(Bins[1].upperBound) # DisplayMinimum(Val(tableColumn), tableStyle)
                    THEN Def(FormatOpt(DisplayMinimum(Val(tableColumn), tableStyle)))
                    ELSE Undefined

C7_Witness ==
    /\ _legend[1] = "Legend" /\ _legend[2].kind = "numeric"
    /\ Len(Items) = 3
    /\ Bins[2].upperBound = Bins[1].upperBound
    /\ Bins[3].upperBound = Bins[2].upperBound
    /\ defined(Items[2].titleAbove)
    /\ Items[3].titleAbove = Undefined
    /\ defined(Items[1].titleBelow)

\* C8: with binning disabled (method matching none, or colorBins <= 0) and a
\* ramp of more than one stop, generation produces no bins and a gradient
\* legend of legendTicks + 2 items; item i (from 1) shows above the formatted
\* minimum + (maximum - minimum) * i / (legendTicks + 2), the last item the
\* formatted maximum, and only item 1 shows a title below, the formatted
\* minimum.
C8_GradientTicks ==
    (Asked /\ defined(tableColumn) /\ BinningOff /\ ~SingleStop) =>
        /\ last.outcome = "return"
        /\ _binColors = Undefined
        /\ _legend[1] = "Legend"
        /\ _legend[2].kind = "gradient"
        /\ Len(Items) = tableStyle.legendTicks + 2
        /\ \A i \in 1..Len(Items) :
              /\ Items[i].titleAbove =
                    Def(convertToStringWithAtMostTwoDecimalPlaces(
                          TickValue(DisplayMinimum(Val(tableColumn), tableStyle),
                                    DisplayMaximum(Val(tableColumn), tableStyle),
                                    i, tableStyle.legendTicks + 2)))
              /\ Items[i].titleBelow =
                    IF i = 1 THEN Def(FormatOpt(DisplayMinimum(Val(tableColumn), tableStyle)))
                    ELSE Undefined
        /\ Items[Len(Items)].titleAbove =
              Def(FormatOpt(DisplayMaximum(Val(tableColumn), tableStyle)))

C8_Witness ==
    /\ Asked /\ defined(tableColumn) /\ BinningOff /\ ~SingleStop
    /\ tableStyle.colorBins > 0
    /\ HasSample
    /\ _legend[1] = "Legend"
    /\ Len(Items) = 3
    /\ Items[1].titleAbove # Items[3].titleAbove
    /\ Items[1].titleAbove # Items[1].titleBelow

\* C9: without a column, or with a column whose value sequence is empty,
\* legendUrl returns undefined, creates no Legend and raises no exception.
C9_MissingInputNoLegend ==
    (Asked /\ (~defined(tableColumn) \/ Val(tableColumn).values = Def(<<>>))) =>
        /\ last.outcome = "return"
        /\ last.retval = Undefined
        /\ _legend[1] # "Legend"

\* C10: every bin of buildBinColors, for any number N >= 1 of bins, carries
\* an entry of the 256-entry gradient table: bin i (from 0) the entry
\* floor(i / (N - 1) * 255), bin 0 entry 0 and, for N >= 2, the last bin
\* entry 255.
C10_BinColourIsTableEntry ==
    HasBins =>
        \A i \in 1..Len(Bins) : \A c \in 1..4 :
            /\ defined(Bins[i].color[c])
            /\ i = 1 => Bins[i].color[c] = GradientData(Val(_colorGradient), c - 1)
            /\ (i = Len(Bins) /\ i >= 2) =>
                  Bins[i].color[c] =
                     GradientData(Val(_colorGradient), (GradientHeight - 1) * 4 + c - 1)

====
